---- MODULE Spec2Model ----
(***************************************************************************)
(* Model of server.js: the in-memory quiz-session registry, the handlers   *)
(* of the ws "message" callback, the events they send, and the keep-alive  *)
(* timer.                                                                  *)
(*                                                                         *)
(* Spec is the message router: it sees the timer only through the closes   *)
(* the timer causes.  KeepAliveSpec runs the timer's probe cycle with the  *)
(* connections and their pongs; ShutdownSpec runs the timer up to the      *)
(* uptime ceiling with the connections and the commands that set a         *)
(* session's stage.                                                        *)
(*                                                                         *)
(* JavaScript strings are tuples of one-character strings, so that the hex *)
(* encoding of random bytes, toUpperCase, property-key order and the CSV   *)
(* quoting are computed as the code computes them.                         *)
(***************************************************************************)
EXTENDS Integers, Sequences, FiniteSets, TLC

(***************************************************************************)
(* Bounds of the model.                                                    *)
(***************************************************************************)
\* connections the WebSocketServer accepts during a run
NumConns == 2
\* events (connection, close, message) the server handles during a run
MaxEvents == 6

Conns == 1..NumConns

\* the period of the keep-alive timer and the uptime ceiling, in ms
KEEP_ALIVE_INTERVAL == 30000
MAX_DURATION == 60 * 60000

\* crypto.randomBytes(3): the buffers a run may draw.  Hex "123456" is an
\* array-index property key, hex "00ab12" is an ordinary string key.
RandomPool == { <<18, 52, 86>>, <<0, 171, 18>> }

(***************************************************************************)
(* Strings                                                                 *)
(***************************************************************************)
HexDigits == <<"0","1","2","3","4","5","6","7","8","9","a","b","c","d","e","f">>

ByteToHex(b) == << HexDigits[(b \div 16) + 1], HexDigits[(b % 16) + 1] >>

\* Buffer.toString("hex") of a 3-byte buffer
BufferToHex(buf) == ByteToHex(buf[1]) \o ByteToHex(buf[2]) \o ByteToHex(buf[3])

UpperChar(c) ==
  CASE c = "a" -> "A" [] c = "b" -> "B" [] c = "c" -> "C"
    [] c = "d" -> "D" [] c = "e" -> "E" [] c = "f" -> "F"
    [] OTHER -> c

toUpperCase(s) == [i \in 1..Len(s) |-> UpperChar(s[i])]

generateSessionCode(buf) == toUpperCase(BufferToHex(buf))

\* the participant id of STUDENT_JOIN_SESSION
generateStudentId(buf) == BufferToHex(buf)

DecDigits == <<"0","1","2","3","4","5","6","7","8","9">>

IsDigit(c) == \E i \in 1..10 : DecDigits[i] = c

DigitVal(c) == (CHOOSE i \in 1..10 : DecDigits[i] = c) - 1

\* a < b for canonical decimal numerals (no leading zeros)
NumeralLess(a, b) ==
  \/ Len(a) < Len(b)
  \/ /\ Len(a) = Len(b)
     /\ \E i \in 1..Len(a) :
          /\ DigitVal(a[i]) < DigitVal(b[i])
          /\ \A j \in 1..(i - 1) : a[j] = b[j]

\* String(n) of a non-negative integer
RECURSIVE NumberToString(_)
NumberToString(n) == IF n < 10 THEN << DecDigits[n + 1] >>
                     ELSE NumberToString(n \div 10) \o << DecDigits[(n % 10) + 1] >>

\* String(n).padStart(2, "0")
padStart2(n) == IF n < 10 THEN <<"0">> \o NumberToString(n) ELSE NumberToString(n)

(***************************************************************************)
(* JavaScript objects used as maps: a sequence of [key, val] in the order  *)
(* the engine enumerates own properties (array-index keys ascending, then  *)
(* the other keys in insertion order).                                     *)
(***************************************************************************)
\* a canonical array index: decimal digits, no leading zero, below 2^32 - 1
IsArrayIndex(k) ==
  /\ Len(k) > 0
  /\ \A i \in 1..Len(k) : IsDigit(k[i])
  /\ (k[1] # "0" \/ Len(k) = 1)
  /\ NumeralLess(k, <<"4","2","9","4","9","6","7","2","9","5">>)

HasOwn(obj, k) == \E i \in 1..Len(obj) : obj[i].key = k

IndexOfKey(obj, k) == CHOOSE i \in 1..Len(obj) : obj[i].key = k

GetOwn(obj, k) == obj[IndexOfKey(obj, k)].val

InsertAt(seq, i, e) == SubSeq(seq, 1, i - 1) \o <<e>> \o SubSeq(seq, i, Len(seq))

\* obj[k] = v
SetProp(obj, k, v) ==
  IF HasOwn(obj, k)
  THEN [obj EXCEPT ![IndexOfKey(obj, k)].val = v]
  ELSE IF IsArrayIndex(k)
       THEN InsertAt(obj,
                     1 + Cardinality({ i \in 1..Len(obj) :
                                         /\ IsArrayIndex(obj[i].key)
                                         /\ NumeralLess(obj[i].key, k) }),
                     [key |-> k, val |-> v])
       ELSE Append(obj, [key |-> k, val |-> v])

ObjectValues(obj) == [i \in 1..Len(obj) |-> obj[i].val]

ObjectKeys(obj) == [i \in 1..Len(obj) |-> obj[i].key]

\* names every object literal inherits from Object.prototype; a lookup
\* obj[k] of such a name yields a truthy value that is no entry of the map
ObjectPrototypeKeys == { <<"c","o","n","s","t","r","u","c","t","o","r">> }

\* the truthiness of obj[k] for the maps answers and students
Truthy(obj, k) == HasOwn(obj, k) \/ k \in ObjectPrototypeKeys

(***************************************************************************)
(* Inputs of the handlers                                                  *)
(***************************************************************************)
\* mcqAnswer: null among the option indices
null == -1

Usernames == { <<"S","a","m">> }
QuestionTexts == { <<"2","+","2","?">> }
OptionCounts == { 4 }
Answers == { 0, 1 }
Explanations == { <<"o","k">> }

\* payload.sessionCode: the codes a session can get, a code in the wrong
\* case (never created) and an inherited property name
SessionCodes ==
  { generateSessionCode(b) : b \in RandomPool }
    \cup { BufferToHex(<<0, 171, 18>>) }
    \cup ObjectPrototypeKeys

\* payload.studentId
StudentIds ==
  { generateStudentId(b) : b \in RandomPool }
    \cup { <<"z">> }
    \cup ObjectPrototypeKeys

\* new Date() at export time
Dates == { [year |-> 2023, month |-> 2, date |-> 10,
            hours |-> 15, minutes |-> 5, seconds |-> 1] }

(***************************************************************************)
(* State                                                                   *)
(***************************************************************************)
VARIABLES
  sessions,    \* the registry: session code -> session record
  readyState,  \* of each connection: "UNCONNECTED", "OPEN" or "CLOSED"
  sent,        \* the events sent while handling the last message, in order
  uncaught,    \* the exception that left the message callback, if any
  handled,     \* the number of events the server has handled
  isAlive,     \* ws.isAlive of each connection
  totalUptime, \* the uptime the keep-alive timer has accumulated, in ms
  keepAliveInterval, \* the timer: "ACTIVE", or "CLEARED" by clearInterval
  probed,      \* the connections the last timer cycle sent a ping to
  ponged       \* the connections a pong arrived from since the last cycle

vars == << sessions, readyState, sent, uncaught, handled,
           isAlive, totalUptime, keepAliveInterval, probed, ponged >>

\* the state of the keep-alive timer
timerVars == << isAlive, totalUptime, keepAliveInterval, probed, ponged >>

\* no exception: the process is up
NoError == [type |-> "", line |-> 0]

\* an uncaught exception has ended the process
crashed == uncaught # NoError

Init ==
  /\ sessions = << >>
  /\ readyState = [ws \in Conns |-> "UNCONNECTED"]
  /\ sent = << >>
  /\ uncaught = NoError
  /\ handled = 0
  /\ isAlive = [ws \in Conns |-> FALSE]
  /\ totalUptime = 0
  /\ keepAliveInterval = "ACTIVE"
  /\ probed = {}
  /\ ponged = {}

(***************************************************************************)
(* Helpers of server.js                                                    *)
(***************************************************************************)
\* sendJSON(ws, data) under the ready states rs: out with the event appended
sendJSON(rs, out, ws, data) ==
  IF rs[ws] = "OPEN" THEN Append(out, [to |-> ws, data |-> data]) ELSE out

RECURSIVE SendEach(_, _, _, _)
SendEach(rs, out, wss, data) ==
  IF wss = << >> THEN out
  ELSE SendEach(rs, sendJSON(rs, out, Head(wss), data), Tail(wss), data)

StudentSockets(session) ==
  [i \in 1..Len(session.students) |-> session.students[i].val.ws]

\* the event sent to the coordinator only
broadcastToSession_TeacherOnly(rs, out, S, sessionCode, data) ==
  IF sessionCode \notin DOMAIN S THEN out
  ELSE sendJSON(rs, out, S[sessionCode].teacher, data)

\* broadcastToSession(sessionCode, data) on the registry S
broadcastToSession(rs, out, S, sessionCode, data) ==
  IF sessionCode \notin DOMAIN S THEN out
  ELSE SendEach(rs, sendJSON(rs, out, S[sessionCode].teacher, data),
                StudentSockets(S[sessionCode]), data)

\* getCurrentQuestion(sessionCode) # null
HasCurrentQuestion(session) ==
  ~ (session.currentQuestionIndex < 0
       \/ session.currentQuestionIndex >= Len(session.questions))

\* getCurrentQuestion(sessionCode): questions[idx] (sequences count from 1)
getCurrentQuestion(session) == session.questions[session.currentQuestionIndex + 1]

TeacherView(session, sessionCode) ==
  [type |-> "TEACHER_VIEW_UPDATE",
   payload |->
     [sessionCode |-> sessionCode,
      stage |-> session.stage,
      questionText |-> IF HasCurrentQuestion(session)
                       THEN getCurrentQuestion(session).questionText ELSE << >>,
      mcqOptions |-> IF HasCurrentQuestion(session)
                     THEN getCurrentQuestion(session).mcqOptions ELSE 0,
      answers |-> IF HasCurrentQuestion(session)
                  THEN ObjectValues(getCurrentQuestion(session).answers) ELSE << >>,
      studentNames |-> [i \in 1..Len(session.students) |->
                          session.students[i].val.username]]]

\* broadcastTeacherView(sessionCode) on the registry S
broadcastTeacherView(rs, out, S, sessionCode) ==
  IF sessionCode \notin DOMAIN S THEN out
  ELSE sendJSON(rs, out, S[sessionCode].teacher,
                TeacherView(S[sessionCode], sessionCode))

RECURSIVE Flatten(_)
Flatten(ss) == IF ss = << >> THEN << >> ELSE Head(ss) \o Flatten(Tail(ss))

RECURSIVE Join(_, _)
Join(ss, sep) ==
  IF ss = << >> THEN << >>
  ELSE IF Len(ss) = 1 THEN ss[1]
  ELSE ss[1] \o sep \o Join(Tail(ss), sep)

\* s.replace(/"/g, '""')
RECURSIVE DoubleQuotes(_)
DoubleQuotes(s) ==
  IF s = << >> THEN << >>
  ELSE (IF Head(s) = "\"" THEN << "\"", "\"" >> ELSE << Head(s) >>)
         \o DoubleQuotes(Tail(s))

CsvField(val) == << "\"" >> \o DoubleQuotes(val) \o << "\"" >>

CsvHeader ==
  << <<"Q","u","e","s","t","i","o","n"," ","#">>,
     <<"Q","u","e","s","t","i","o","n"," ","T","e","x","t">>,
     <<"U","s","e","r","n","a","m","e">>,
     <<"M","C","Q"," ","A","n","s","w","e","r">>,
     <<"E","x","p","l","a","n","a","t","i","o","n">> >>

\* ans.mcqAnswer || "" and then String(val)
McqAnswerField(mcqAnswer) ==
  IF mcqAnswer = null \/ mcqAnswer = 0 THEN << >> ELSE NumberToString(mcqAnswer)

CsvRow(q, ans) ==
  << NumberToString(q.questionNumber), q.questionText, ans.username,
     McqAnswerField(ans.mcqAnswer), ans.explanation >>

CsvRows(session) ==
  << CsvHeader >>
    \o Flatten([i \in 1..Len(session.questions) |->
                  [j \in 1..Len(session.questions[i].answers) |->
                     CsvRow(session.questions[i],
                            session.questions[i].answers[j].val)]])

generateCSV(session) ==
  Join([i \in 1..Len(CsvRows(session)) |->
          Join([j \in 1..5 |-> CsvField(CsvRows(session)[i][j])], << "," >>)],
       << "\n" >>)

getTimestampString(d) ==
  NumberToString(d.year) \o padStart2(d.month + 1) \o padStart2(d.date)
    \o << "-" >> \o padStart2(d.hours) \o padStart2(d.minutes) \o padStart2(d.seconds)

CsvFilename(sessionCode, d) ==
  << "q","u","i","z","_","d","a","t","a","_" >> \o sessionCode \o << "_" >>
    \o getTimestampString(d) \o << ".","c","s","v" >>

\* the answer slot created for a participant
EmptyAnswer(username) ==
  [username |-> username, mcqAnswer |-> null, explanation |-> << >>]

\* sessions[code] = value
RegistryPut(S, code, session) ==
  [k \in DOMAIN S \cup {code} |-> IF k = code THEN session ELSE S[k]]

\* delete sessions[code]
RegistryDelete(S, code) == [k \in DOMAIN S \ {code} |-> S[k]]

\* sessions[sessionCode] is an inherited property: truthy, and no session
LooksUpInherited(S, sessionCode) ==
  sessionCode \notin DOMAIN S /\ sessionCode \in ObjectPrototypeKeys

\* a TypeError thrown at the given line while handling a message of the
\* given type leaves the "message" callback uncaught
Throw(type, line) ==
  /\ uncaught' = [type |-> type, line |-> line]
  /\ sent' = << >>
  /\ UNCHANGED << sessions, readyState >>

\* no participant connection closed
CloseStudents_None(rs, session) == rs

\* stu.ws.close() for every student of the session
CloseStudents(rs, session) ==
  [ws \in Conns |->
     IF \E i \in 1..Len(session.students) : session.students[i].val.ws = ws
          /\ rs[ws] = "OPEN"
     THEN "CLOSED" ELSE rs[ws]]

(***************************************************************************)
(* What each handler does to the session it resolves                       *)
(***************************************************************************)
NewSession(ws) ==
  [teacher |-> ws, stage |-> "WAITING", currentQuestionIndex |-> -1,
   questions |-> << >>, students |-> << >>]

\* no answer slot added for the existing students
AddAnswerSlots_None(answers, students) == answers

\* answer slots for the existing students, in Object.entries order
RECURSIVE AddAnswerSlots(_, _)
AddAnswerSlots(answers, students) ==
  IF students = << >> THEN answers
  ELSE AddAnswerSlots(
         SetProp(answers, Head(students).key, EmptyAnswer(Head(students).val.username)),
         Tail(students))

\* the previous question marked "DONE" whatever its stage
MarkPreviousDone_Always(session) ==
  IF session.currentQuestionIndex >= 0 /\ HasCurrentQuestion(session)
  THEN [session EXCEPT !.questions[session.currentQuestionIndex + 1].stage = "DONE"]
  ELSE session

\* mark the previous question "DONE" if it was in EXPLANATION
MarkPreviousDone(session) ==
  IF /\ session.currentQuestionIndex >= 0
     /\ HasCurrentQuestion(session)
     /\ getCurrentQuestion(session).stage = "EXPLANATION"
  THEN [session EXCEPT !.questions[session.currentQuestionIndex + 1].stage = "DONE"]
  ELSE session

\* the question number taken as the 0-based index
NewQuestion_ZeroBased(session, questionText, options) ==
  [questionNumber |-> Len(session.questions),
   questionText |-> questionText,
   mcqOptions |-> options,
   stage |-> "MCQ",
   answers |-> AddAnswerSlots(<< >>, session.students)]

NewQuestion(session, questionText, options) ==
  [questionNumber |-> Len(session.questions) + 1,
   questionText |-> questionText,
   mcqOptions |-> options,
   stage |-> "MCQ",
   answers |-> AddAnswerSlots(<< >>, session.students)]

\* the index set to the new length instead of the last position
PushQuestion_IndexIsLength(session, questionObj) ==
  [session EXCEPT !.questions = Append(@, questionObj),
                  !.currentQuestionIndex = Len(session.questions) + 1]

PushQuestion(session, questionObj) ==
  [session EXCEPT !.questions = Append(@, questionObj),
                  !.currentQuestionIndex = (Len(session.questions) + 1) - 1]

StartMcq(session, questionText, options) ==
  PushQuestion(MarkPreviousDone([session EXCEPT !.stage = "MCQ"]),
               NewQuestion(session, questionText, options))

NextExplanation(session) ==
  IF HasCurrentQuestion(session) /\ getCurrentQuestion(session).stage = "MCQ"
  THEN [session EXCEPT !.stage = "EXPLANATION",
                       !.questions[session.currentQuestionIndex + 1].stage = "EXPLANATION"]
  ELSE [session EXCEPT !.stage = "EXPLANATION"]

StopQuiz(session) == [session EXCEPT !.stage = "STOPPED"]

RejoinTeacher(session, ws) == [session EXCEPT !.teacher = ws]

\* curQ.answers[studentId] = value
SetCurrentAnswer(session, studentId, value) ==
  [session EXCEPT !.questions[session.currentQuestionIndex + 1].answers =
                     SetProp(@, studentId, value)]

AddStudent(session, studentId, username, ws) ==
  [session EXCEPT !.students =
     SetProp(@, studentId, [username |-> username, ws |-> ws])]

\* the joiner registered without the slot on the current question
JoinSession_NoSlot(session, studentId, username, ws) ==
  AddStudent(session, studentId, username, ws)

JoinSession(session, studentId, username, ws) ==
  IF HasCurrentQuestion(AddStudent(session, studentId, username, ws))
  THEN SetCurrentAnswer(AddStudent(session, studentId, username, ws),
                        studentId, EmptyAnswer(username))
  ELSE AddStudent(session, studentId, username, ws)

\* the submit handlers return before writing anything
SubmitReturns(session, studentId) ==
  \/ ~ HasCurrentQuestion(session)
  \/ /\ ~ Truthy(getCurrentQuestion(session).answers, studentId)
     /\ ~ Truthy(session.students, studentId)

\* the slot of a late joiner, created when curQ.answers[studentId] is falsy
WithAnswerSlot(session, studentId) ==
  IF ~ Truthy(getCurrentQuestion(session).answers, studentId)
  THEN SetCurrentAnswer(session, studentId,
                        EmptyAnswer(GetOwn(session.students, studentId).username))
  ELSE session

\* every submission pushed as a new record instead of written to the slot
SubmitMcq_Push(session, studentId, answer) ==
  [session EXCEPT !.questions[session.currentQuestionIndex + 1].answers =
     Append(@, [key |-> studentId,
                val |-> [username |-> << >>, mcqAnswer |-> answer,
                         explanation |-> << >>]])]

\* curQ.answers[studentId].mcqAnswer = answer (a write to an inherited
\* property's value does not touch the answers map)
SubmitMcq(session, studentId, answer) ==
  IF HasOwn(getCurrentQuestion(WithAnswerSlot(session, studentId)).answers, studentId)
  THEN SetCurrentAnswer(
         WithAnswerSlot(session, studentId), studentId,
         [GetOwn(getCurrentQuestion(WithAnswerSlot(session, studentId)).answers,
                 studentId) EXCEPT !.mcqAnswer = answer])
  ELSE WithAnswerSlot(session, studentId)

\* the record rewritten whole, its mcqAnswer reset to null
ExplanationUpdate_ResetsAnswer(session, studentId, explanation) ==
  IF HasOwn(getCurrentQuestion(WithAnswerSlot(session, studentId)).answers, studentId)
  THEN SetCurrentAnswer(
         WithAnswerSlot(session, studentId), studentId,
         [GetOwn(getCurrentQuestion(WithAnswerSlot(session, studentId)).answers,
                 studentId) EXCEPT !.mcqAnswer = null, !.explanation = explanation])
  ELSE WithAnswerSlot(session, studentId)

\* curQ.answers[studentId].explanation = explanation
ExplanationUpdate(session, studentId, explanation) ==
  IF HasOwn(getCurrentQuestion(WithAnswerSlot(session, studentId)).answers, studentId)
  THEN SetCurrentAnswer(
         WithAnswerSlot(session, studentId), studentId,
         [GetOwn(getCurrentQuestion(WithAnswerSlot(session, studentId)).answers,
                 studentId) EXCEPT !.explanation = explanation])
  ELSE WithAnswerSlot(session, studentId)

(***************************************************************************)
(* Connections                                                             *)
(***************************************************************************)
\* ws.isAlive = true with isAlive set to FALSE instead
MarkAlive_False(alive, ws) == [alive EXCEPT ![ws] = FALSE]

\* ws.isAlive = true
MarkAlive(alive, ws) == [alive EXCEPT ![ws] = TRUE]

\* wss.on("connection"): connections are numbered in the order accepted
Connect(ws) ==
  /\ ~ crashed
  /\ readyState[ws] = "UNCONNECTED"
  /\ \A w \in Conns : w < ws => readyState[w] # "UNCONNECTED"
  /\ readyState' = [readyState EXCEPT ![ws] = "OPEN"]
  /\ isAlive' = MarkAlive(isAlive, ws)
  /\ sent' = << >>
  /\ handled < MaxEvents
  /\ handled' = handled + 1
  /\ UNCHANGED << sessions, uncaught, totalUptime, keepAliveInterval, probed, ponged >>

\* ws.on("pong"): a pong frame arrives on ws
Pong(ws) ==
  /\ ~ crashed
  /\ readyState[ws] = "OPEN"
  /\ isAlive' = MarkAlive(isAlive, ws)
  /\ ponged' = ponged \cup {ws}
  /\ sent' = << >>
  /\ UNCHANGED << sessions, readyState, uncaught, handled,
                  totalUptime, keepAliveInterval, probed >>

\* the connection closes (by the peer, or ended by the keep-alive timer);
\* ws.on("close") cleans nothing up
PeerClose(ws) ==
  /\ ~ crashed
  /\ readyState[ws] = "OPEN"
  /\ readyState' = [readyState EXCEPT ![ws] = "CLOSED"]
  /\ sent' = << >>
  /\ handled < MaxEvents
  /\ handled' = handled + 1
  /\ UNCHANGED << sessions, uncaught >>
  /\ UNCHANGED timerVars

\* a message arrives on ws
Receives(ws) ==
  /\ ~ crashed
  /\ readyState[ws] = "OPEN"
  /\ handled < MaxEvents
  /\ handled' = handled + 1
  /\ UNCHANGED timerVars

\* the handler returns without touching anything
Ignore ==
  /\ sent' = << >>
  /\ UNCHANGED << sessions, readyState, uncaught >>

(***************************************************************************)
(* ws.on("message"): one action per kind of message                        *)
(***************************************************************************)
\* JSON.parse throws: logged and dropped
InvalidJSON(ws) == Receives(ws) /\ Ignore

\* JSON.parse yields null: destructuring { type, payload } throws
NullJSON(ws) == Receives(ws) /\ Throw("", 191)

\* no branch of the if/else chain matches data.type
UnknownType(ws) == Receives(ws) /\ Ignore

\* the types whose handler destructures payload
PayloadTypes ==
  { "TEACHER_START_MCQ", "TEACHER_NEXT_EXPLANATION", "TEACHER_STOP_QUIZ",
    "TEACHER_CLOSE_PAGE", "TEACHER_DOWNLOAD_CSV", "TEACHER_REJOIN_SESSION",
    "STUDENT_JOIN_SESSION", "STUDENT_SUBMIT_MCQ", "STUDENT_EXPLANATION_UPDATE" }

\* the line of each handler's const { ... } = payload
DestructuringLine(type) ==
  CASE type = "TEACHER_START_MCQ" -> 211
    [] type = "TEACHER_NEXT_EXPLANATION" -> 257
    [] type = "TEACHER_STOP_QUIZ" -> 273
    [] type = "TEACHER_CLOSE_PAGE" -> 291
    [] type = "TEACHER_DOWNLOAD_CSV" -> 308
    [] type = "TEACHER_REJOIN_SESSION" -> 331
    [] type = "STUDENT_JOIN_SESSION" -> 344
    [] type = "STUDENT_SUBMIT_MCQ" -> 383
    [] type = "STUDENT_EXPLANATION_UPDATE" -> 404

\* { type } without payload: const { sessionCode } = undefined throws
MissingPayload(ws, type) == Receives(ws) /\ Throw(type, DestructuringLine(type))

TEACHER_CREATE_SESSION(ws, buf) ==
  /\ Receives(ws)
  /\ sessions' = RegistryPut(sessions, generateSessionCode(buf), NewSession(ws))
  /\ sent' = sendJSON(readyState, << >>, ws,
                      [type |-> "SESSION_CREATED",
                       payload |-> [sessionCode |-> generateSessionCode(buf)]])
  /\ UNCHANGED << readyState, uncaught >>

TEACHER_START_MCQ(ws, sessionCode, questionText, options) ==
  /\ Receives(ws)
  /\ IF LooksUpInherited(sessions, sessionCode) THEN Throw("TEACHER_START_MCQ", 226)
     ELSE IF sessionCode \notin DOMAIN sessions THEN Ignore
     ELSE /\ sessions' = RegistryPut(sessions, sessionCode,
                                     StartMcq(sessions[sessionCode], questionText, options))
          /\ sent' = broadcastTeacherView(
                       readyState,
                       broadcastToSession(
                         readyState, << >>, sessions', sessionCode,
                         [type |-> "MCQ_STARTED",
                          payload |->
                            [questionText |->
                               NewQuestion(sessions[sessionCode],
                                           questionText, options).questionText,
                             options |->
                               NewQuestion(sessions[sessionCode],
                                           questionText, options).mcqOptions]]),
                       sessions', sessionCode)
          /\ UNCHANGED << readyState, uncaught >>

TEACHER_NEXT_EXPLANATION(ws, sessionCode) ==
  /\ Receives(ws)
  /\ IF LooksUpInherited(sessions, sessionCode) THEN Throw("TEACHER_NEXT_EXPLANATION", 84)
     ELSE IF sessionCode \notin DOMAIN sessions THEN Ignore
     ELSE /\ sessions' = RegistryPut(sessions, sessionCode,
                                     NextExplanation(sessions[sessionCode]))
          /\ sent' = broadcastTeacherView(
                       readyState,
                       broadcastToSession(readyState, << >>, sessions', sessionCode,
                                          [type |-> "SHOW_EXPLANATION_INPUT"]),
                       sessions', sessionCode)
          /\ UNCHANGED << readyState, uncaught >>

TEACHER_STOP_QUIZ(ws, sessionCode) ==
  /\ Receives(ws)
  /\ IF LooksUpInherited(sessions, sessionCode) THEN Throw("TEACHER_STOP_QUIZ", 74)
     ELSE IF sessionCode \notin DOMAIN sessions THEN Ignore
     ELSE /\ sessions' = RegistryPut(sessions, sessionCode,
                                     StopQuiz(sessions[sessionCode]))
          /\ readyState' = CloseStudents(readyState, sessions[sessionCode])
          /\ sent' = broadcastTeacherView(
                       readyState',
                       broadcastToSession(readyState, << >>, sessions', sessionCode,
                                          [type |-> "QUIZ_STOPPED"]),
                       sessions', sessionCode)
          /\ UNCHANGED uncaught

TEACHER_CLOSE_PAGE(ws, sessionCode) ==
  /\ Receives(ws)
  /\ IF LooksUpInherited(sessions, sessionCode) THEN Throw("TEACHER_CLOSE_PAGE", 74)
     ELSE IF sessionCode \notin DOMAIN sessions THEN Ignore
     ELSE /\ sessions' = RegistryDelete(sessions, sessionCode)
          /\ readyState' = CloseStudents(readyState, sessions[sessionCode])
          /\ sent' = broadcastToSession(
                       readyState, << >>,
                       RegistryPut(sessions, sessionCode, StopQuiz(sessions[sessionCode])),
                       sessionCode, [type |-> "QUIZ_STOPPED"])
          /\ UNCHANGED uncaught

TEACHER_DOWNLOAD_CSV(ws, sessionCode, d) ==
  /\ Receives(ws)
  /\ IF LooksUpInherited(sessions, sessionCode) THEN Throw("TEACHER_DOWNLOAD_CSV", 139)
     ELSE /\ sent' = IF sessionCode \notin DOMAIN sessions
                     THEN sendJSON(readyState, << >>, ws,
                                   [type |-> "ERROR",
                                    payload |-> [message |-> "No such session."]])
                     ELSE sendJSON(readyState, << >>, ws,
                                   [type |-> "CSV_DATA",
                                    payload |->
                                      [csv |-> generateCSV(sessions[sessionCode]),
                                       filename |-> CsvFilename(sessionCode, d)]])
          /\ UNCHANGED << sessions, readyState, uncaught >>

TEACHER_REJOIN_SESSION(ws, sessionCode) ==
  /\ Receives(ws)
  /\ IF LooksUpInherited(sessions, sessionCode) THEN Throw("TEACHER_REJOIN_SESSION", 84)
     ELSE IF sessionCode \notin DOMAIN sessions
     THEN /\ sent' = sendJSON(readyState, << >>, ws,
                              [type |-> "ERROR",
                               payload |-> [message |-> "Session code not found"]])
          /\ UNCHANGED << sessions, readyState, uncaught >>
     ELSE /\ sessions' = RegistryPut(sessions, sessionCode,
                                     RejoinTeacher(sessions[sessionCode], ws))
          /\ sent' = broadcastTeacherView(readyState, << >>, sessions', sessionCode)
          /\ UNCHANGED << readyState, uncaught >>

STUDENT_JOIN_SESSION(ws, sessionCode, username, buf) ==
  /\ Receives(ws)
  /\ IF LooksUpInherited(sessions, sessionCode) THEN Throw("STUDENT_JOIN_SESSION", 354)
     ELSE IF sessionCode \notin DOMAIN sessions
     THEN /\ sent' = sendJSON(readyState, << >>, ws,
                              [type |-> "ERROR",
                               payload |-> [message |-> "Invalid session code"]])
          /\ UNCHANGED << sessions, readyState, uncaught >>
     ELSE /\ sessions' = RegistryPut(sessions, sessionCode,
                                     JoinSession(sessions[sessionCode],
                                                 generateStudentId(buf), username, ws))
          /\ sent' = broadcastTeacherView(
                       readyState,
                       sendJSON(readyState, << >>, ws,
                                [type |-> "JOINED_SESSION",
                                 payload |-> [studentId |-> generateStudentId(buf),
                                              sessionCode |-> sessionCode,
                                              stage |-> sessions'[sessionCode].stage]]),
                       sessions', sessionCode)
          /\ UNCHANGED << readyState, uncaught >>

STUDENT_SUBMIT_MCQ(ws, sessionCode, studentId, answer) ==
  /\ Receives(ws)
  /\ IF LooksUpInherited(sessions, sessionCode) THEN Throw("STUDENT_SUBMIT_MCQ", 84)
     ELSE IF sessionCode \notin DOMAIN sessions THEN Ignore
     ELSE IF SubmitReturns(sessions[sessionCode], studentId) THEN Ignore
     ELSE /\ sessions' = RegistryPut(sessions, sessionCode,
                                     SubmitMcq(sessions[sessionCode], studentId, answer))
          /\ sent' = broadcastTeacherView(readyState, << >>, sessions', sessionCode)
          /\ UNCHANGED << readyState, uncaught >>

STUDENT_EXPLANATION_UPDATE(ws, sessionCode, studentId, explanation) ==
  /\ Receives(ws)
  /\ IF LooksUpInherited(sessions, sessionCode) THEN Throw("STUDENT_EXPLANATION_UPDATE", 84)
     ELSE IF sessionCode \notin DOMAIN sessions THEN Ignore
     ELSE IF SubmitReturns(sessions[sessionCode], studentId) THEN Ignore
     ELSE /\ sessions' = RegistryPut(sessions, sessionCode,
                                     ExplanationUpdate(sessions[sessionCode],
                                                       studentId, explanation))
          /\ sent' = broadcastTeacherView(readyState, << >>, sessions', sessionCode)
          /\ UNCHANGED << readyState, uncaught >>

Next ==
  \/ \E ws \in Conns : Connect(ws)
  \/ \E ws \in Conns : PeerClose(ws)
  \/ \E ws \in Conns : InvalidJSON(ws)
  \/ \E ws \in Conns : NullJSON(ws)
  \/ \E ws \in Conns : UnknownType(ws)
  \/ \E ws \in Conns, type \in PayloadTypes : MissingPayload(ws, type)
  \/ \E ws \in Conns, buf \in RandomPool : TEACHER_CREATE_SESSION(ws, buf)
  \/ \E ws \in Conns, sessionCode \in SessionCodes,
        questionText \in QuestionTexts, options \in OptionCounts :
       TEACHER_START_MCQ(ws, sessionCode, questionText, options)
  \/ \E ws \in Conns, sessionCode \in SessionCodes :
       TEACHER_NEXT_EXPLANATION(ws, sessionCode)
  \/ \E ws \in Conns, sessionCode \in SessionCodes :
       TEACHER_STOP_QUIZ(ws, sessionCode)
  \/ \E ws \in Conns, sessionCode \in SessionCodes :
       TEACHER_CLOSE_PAGE(ws, sessionCode)
  \/ \E ws \in Conns, sessionCode \in SessionCodes,
        d \in Dates :
       TEACHER_DOWNLOAD_CSV(ws, sessionCode, d)
  \/ \E ws \in Conns, sessionCode \in SessionCodes :
       TEACHER_REJOIN_SESSION(ws, sessionCode)
  \/ \E ws \in Conns, sessionCode \in SessionCodes,
        username \in Usernames, buf \in RandomPool :
       STUDENT_JOIN_SESSION(ws, sessionCode, username, buf)
  \/ \E ws \in Conns, sessionCode \in SessionCodes,
        studentId \in StudentIds, answer \in Answers :
       STUDENT_SUBMIT_MCQ(ws, sessionCode, studentId, answer)
  \/ \E ws \in Conns, sessionCode \in SessionCodes,
        studentId \in StudentIds, explanation \in Explanations :
       STUDENT_EXPLANATION_UPDATE(ws, sessionCode, studentId, explanation)

Spec == Init /\ [][Next]_vars

(***************************************************************************)
(* The keep-alive timer                                                    *)
(***************************************************************************)
\* wss.clients: the connections that are open
Clients(rs) == { ws \in Conns : rs[ws] = "OPEN" }

\* no connection closed at the ceiling
CloseAll_None(rs) == rs

\* wss.clients.forEach((ws) => ws.close())
CloseAll(rs) == [ws \in Conns |-> IF ws \in Clients(rs) THEN "CLOSED" ELSE rs[ws]]

\* one run of the setInterval callback
KeepAlive ==
  /\ ~ crashed
  /\ keepAliveInterval = "ACTIVE"
  /\ totalUptime' = totalUptime + KEEP_ALIVE_INTERVAL
  /\ IF totalUptime' >= MAX_DURATION
     THEN /\ readyState' = CloseAll(readyState)
          /\ keepAliveInterval' = "CLEARED"
          /\ probed' = {}
          /\ UNCHANGED isAlive
     ELSE /\ readyState' = [ws \in Conns |->
                              IF ws \in Clients(readyState) /\ ~ isAlive[ws]
                              THEN "CLOSED" ELSE readyState[ws]]
          /\ isAlive' = [ws \in Conns |->
                           IF ws \in Clients(readyState) /\ isAlive[ws]
                           THEN FALSE ELSE isAlive[ws]]
          /\ probed' = { ws \in Clients(readyState) : isAlive[ws] }
          /\ UNCHANGED keepAliveInterval
  /\ ponged' = {}
  /\ sent' = << >>
  /\ UNCHANGED << sessions, uncaught, handled >>

\* the probe cycle: the timer, the connections and their pongs
KeepAliveNext ==
  \/ KeepAlive
  \/ \E ws \in Conns : Connect(ws)
  \/ \E ws \in Conns : PeerClose(ws)
  \/ \E ws \in Conns : Pong(ws)

KeepAliveSpec == Init /\ [][KeepAliveNext]_vars

\* the shutdown at the ceiling: the timer, the connections and the commands
\* that set a session's stage
ShutdownNext ==
  \/ KeepAlive
  \/ \E ws \in Conns : Connect(ws)
  \/ \E ws \in Conns : PeerClose(ws)
  \/ \E ws \in Conns, buf \in RandomPool : TEACHER_CREATE_SESSION(ws, buf)
  \/ \E ws \in Conns, sessionCode \in SessionCodes :
       TEACHER_NEXT_EXPLANATION(ws, sessionCode)
  \/ \E ws \in Conns, sessionCode \in SessionCodes :
       TEACHER_STOP_QUIZ(ws, sessionCode)

ShutdownSpec == Init /\ [][ShutdownNext]_vars

(***************************************************************************)
(* Steps, as seen from a pair of states                                    *)
(***************************************************************************)
Live == DOMAIN sessions

StartMcqStep(c) ==
  \E ws \in Conns, questionText \in QuestionTexts, options \in OptionCounts :
    TEACHER_START_MCQ(ws, c, questionText, options)

CreateStep(c) ==
  \E ws \in Conns, buf \in RandomPool :
    generateSessionCode(buf) = c /\ TEACHER_CREATE_SESSION(ws, buf)

JoinStep(ws, c, username, buf) == STUDENT_JOIN_SESSION(ws, c, username, buf)

SubmitMcqStep(c, studentId, answer) ==
  \E ws \in Conns : STUDENT_SUBMIT_MCQ(ws, c, studentId, answer)

ExplanationStep(c, studentId) ==
  \E ws \in Conns, explanation \in Explanations :
    STUDENT_EXPLANATION_UPDATE(ws, c, studentId, explanation)

\* an event of the given type was sent while handling the last message
SentType(type) == \E i \in 1..Len(sent) : sent[i].data.type = type

\* one of the four commands the stop is said to freeze, for session c
FrozenCommandStep(c) ==
  \/ StartMcqStep(c)
  \/ \E ws \in Conns, username \in Usernames, buf \in RandomPool :
       JoinStep(ws, c, username, buf)
  \/ \E studentId \in StudentIds, answer \in Answers :
       SubmitMcqStep(c, studentId, answer)
  \/ \E studentId \in StudentIds : ExplanationStep(c, studentId)

DownloadStep(ws, c) == \E d \in Dates : TEACHER_DOWNLOAD_CSV(ws, c, d)

(***************************************************************************)
(* C1: after TEACHER_STOP_QUIZ has been handled for a session (its stage   *)
(* is STOPPED and it is still in the registry), no STUDENT_JOIN_SESSION,   *)
(* STUDENT_SUBMIT_MCQ, STUDENT_EXPLANATION_UPDATE or TEACHER_START_MCQ for *)
(* that code changes the session's questions list or any question's        *)
(* answers map, while TEACHER_DOWNLOAD_CSV still returns CSV_DATA.         *)
(***************************************************************************)
C1_FrozenAfterStop ==
  [][\A c \in Live :
       sessions[c].stage = "STOPPED" =>
         /\ FrozenCommandStep(c) => sessions'[c].questions = sessions[c].questions
         /\ \A ws \in Conns :
              DownloadStep(ws, c) =>
                /\ Len(sent') = 1
                /\ sent'[1].to = ws
                /\ sent'[1].data.type = "CSV_DATA"]_vars

(***************************************************************************)
(* C2: each TEACHER_START_MCQ on an existing session increases             *)
(* currentQuestionIndex by exactly one and the length of questions by      *)
(* exactly one, and in every reachable state every question's              *)
(* questionNumber equals its 1-based position in questions.                *)
(***************************************************************************)
C2_QuestionNumbering ==
  /\ [](\A c \in Live : \A i \in 1..Len(sessions[c].questions) :
          sessions[c].questions[i].questionNumber = i)
  /\ [][\A c \in Live :
          StartMcqStep(c) =>
            /\ sessions'[c].currentQuestionIndex = sessions[c].currentQuestionIndex + 1
            /\ Len(sessions'[c].questions) = Len(sessions[c].questions) + 1]_vars

\* a second question has just been started in some session
C2_Witness ==
  /\ SentType("MCQ_STARTED")
  /\ \E c \in Live : Len(sessions[c].questions) = 2
                       /\ sessions[c].currentQuestionIndex = 1
                       /\ sessions[c].stage = "MCQ"

(***************************************************************************)
(* C3: TEACHER_CREATE_SESSION never assigns a code that already maps to a  *)
(* session in the registry, so creating a session never replaces or alters *)
(* an existing session's record.                                           *)
(***************************************************************************)
C3_CreateNeverOverwrites ==
  [][\A ws \in Conns, buf \in RandomPool :
       TEACHER_CREATE_SESSION(ws, buf) =>
         \A c \in Live : c \in DOMAIN sessions' /\ sessions'[c] = sessions[c]]_vars

(***************************************************************************)
(* C4: in every reachable state of every session, currentQuestionIndex is  *)
(* -1 or satisfies 0 <= currentQuestionIndex < length of questions, and    *)
(* across any step of the session's life (the step does not replace the    *)
(* record by a newly created session) currentQuestionIndex never           *)
(* decreases.                                                              *)
(***************************************************************************)
C4_IndexValidAndMonotonic ==
  /\ [](\A c \in Live :
          \/ sessions[c].currentQuestionIndex = -1
          \/ /\ 0 <= sessions[c].currentQuestionIndex
             /\ sessions[c].currentQuestionIndex < Len(sessions[c].questions))
  /\ [][\A c \in Live \cap DOMAIN sessions' :
          ~ CreateStep(c) =>
            sessions'[c].currentQuestionIndex >= sessions[c].currentQuestionIndex]_vars

\* a session whose index has advanced past its first question and which
\* has since been moved on to the explanation stage
C4_Witness ==
  \E c \in Live : /\ sessions[c].currentQuestionIndex = 1
                  /\ sessions[c].stage = "EXPLANATION"

\* the records of studentId among the entries of an answers map
RecordsOf(answers, studentId) ==
  { i \in 1..Len(answers) : answers[i].key = studentId }

(***************************************************************************)
(* C5: a STUDENT_JOIN_SESSION handled while the session has no current     *)
(* question creates no answer record in any question for the new           *)
(* participant; handled while a current question exists it creates exactly *)
(* one answer record for the new participant, on the current question      *)
(* only, with mcqAnswer = null and explanation = "".                       *)
(***************************************************************************)
C5_JoinAnswerSlot ==
  [][\A ws \in Conns, c \in Live, username \in Usernames, buf \in RandomPool :
       JoinStep(ws, c, username, buf) =>
         IF ~ HasCurrentQuestion(sessions[c])
         THEN /\ sessions'[c].questions = sessions[c].questions
              /\ \A i \in 1..Len(sessions'[c].questions) :
                   RecordsOf(sessions'[c].questions[i].answers,
                             generateStudentId(buf)) = {}
         ELSE /\ Len(sessions'[c].questions) = Len(sessions[c].questions)
              /\ \A i \in 1..Len(sessions[c].questions) :
                   IF i = sessions[c].currentQuestionIndex + 1
                   THEN /\ Cardinality(RecordsOf(sessions'[c].questions[i].answers,
                                                 generateStudentId(buf))) = 1
                        /\ GetOwn(sessions'[c].questions[i].answers,
                                  generateStudentId(buf))
                             = [username |-> username, mcqAnswer |-> null,
                                explanation |-> << >>]
                        /\ \A k \in 1..Len(sessions[c].questions[i].answers) :
                             sessions[c].questions[i].answers[k].key
                                 # generateStudentId(buf)
                               => \E m \in 1..Len(sessions'[c].questions[i].answers) :
                                    sessions'[c].questions[i].answers[m]
                                      = sessions[c].questions[i].answers[k]
                        /\ Len(sessions'[c].questions[i].answers)
                             <= Len(sessions[c].questions[i].answers) + 1
                   ELSE sessions'[c].questions[i] = sessions[c].questions[i]]_vars

\* a participant has just joined a session that has a current question,
\* and holds the empty answer slot on it
C5_Witness ==
  \E i \in 1..Len(sent) :
    /\ sent[i].data.type = "JOINED_SESSION"
    /\ sent[i].data.payload.sessionCode \in Live
    /\ HasCurrentQuestion(sessions[sent[i].data.payload.sessionCode])
    /\ HasOwn(getCurrentQuestion(sessions[sent[i].data.payload.sessionCode]).answers,
              sent[i].data.payload.studentId)
    /\ Len(sessions[sent[i].data.payload.sessionCode].questions) = 2

(***************************************************************************)
(* C6: answer submission is an upsert: a STUDENT_SUBMIT_MCQ of a           *)
(* participant leaves exactly one record for that participant on the       *)
(* current question, holding the submitted answer (a second submission     *)
(* overwrites the first and adds no record), and in every reachable state  *)
(* the number of answer records of any question never exceeds the number   *)
(* of participants registered in the session.                              *)
(***************************************************************************)
C6_SubmitIsUpsert ==
  /\ [](\A c \in Live : \A i \in 1..Len(sessions[c].questions) :
          Len(sessions[c].questions[i].answers) <= Len(sessions[c].students))
  /\ [][\A c \in Live, studentId \in StudentIds \ ObjectPrototypeKeys,
           answer \in Answers :
          (SubmitMcqStep(c, studentId, answer)
             /\ ~ SubmitReturns(sessions[c], studentId)) =>
            /\ Cardinality(RecordsOf(getCurrentQuestion(sessions'[c]).answers,
                                     studentId)) = 1
            /\ GetOwn(getCurrentQuestion(sessions'[c]).answers, studentId).mcqAnswer
                 = answer
            /\ Len(getCurrentQuestion(sessions'[c]).answers)
                 = Len(getCurrentQuestion(sessions[c]).answers)
                     + (IF HasOwn(getCurrentQuestion(sessions[c]).answers, studentId)
                        THEN 0 ELSE 1)]_vars

\* the coordinator has just been shown a submitted answer of a participant
\* who also holds an explanation: the record has been written more than once
C6_Witness ==
  \E i \in 1..Len(sent) :
    /\ sent[i].data.type = "TEACHER_VIEW_UPDATE"
    /\ \E k \in 1..Len(sent[i].data.payload.answers) :
         /\ sent[i].data.payload.answers[k].mcqAnswer = 1
         /\ sent[i].data.payload.answers[k].explanation # << >>

(***************************************************************************)
(* C7: STUDENT_JOIN_SESSION always allocates an id that is not already a   *)
(* key of the session's participants, so a join never replaces an existing *)
(* participant entry nor resets an existing participant's answer record on *)
(* the current question.                                                   *)
(***************************************************************************)
C7_JoinAllocatesFreshId ==
  [][\A ws \in Conns, c \in Live, username \in Usernames, buf \in RandomPool :
       JoinStep(ws, c, username, buf) =>
         /\ \A k \in 1..Len(sessions[c].students) :
              GetOwn(sessions'[c].students, sessions[c].students[k].key)
                = sessions[c].students[k].val
         /\ HasCurrentQuestion(sessions[c]) =>
              \A k \in 1..Len(getCurrentQuestion(sessions[c]).answers) :
                GetOwn(getCurrentQuestion(sessions'[c]).answers,
                       getCurrentQuestion(sessions[c]).answers[k].key)
                  = getCurrentQuestion(sessions[c]).answers[k].val]_vars

ErrorTo(ws, message) ==
  << [to |-> ws, data |-> [type |-> "ERROR", payload |-> [message |-> message]]] >>

(***************************************************************************)
(* C8: TEACHER_REJOIN_SESSION for a code present in the registry sets the  *)
(* session's coordinator connection to the caller and sends the caller a   *)
(* TEACHER_VIEW_UPDATE whose stage, question text, option count, answers   *)
(* and studentNames equal the session's current state; for a code absent   *)
(* from the registry it sends the caller ERROR and changes no state.       *)
(***************************************************************************)
C8_Rejoin ==
  [][\A ws \in Conns, c \in SessionCodes :
       TEACHER_REJOIN_SESSION(ws, c) =>
         IF c \in Live
         THEN /\ sessions'[c] = [sessions[c] EXCEPT !.teacher = ws]
              /\ Len(sent') = 1
              /\ sent'[1].to = ws
              /\ sent'[1].data.type = "TEACHER_VIEW_UPDATE"
              /\ sent'[1].data.payload.stage = sessions'[c].stage
              /\ sent'[1].data.payload.studentNames
                   = [i \in 1..Len(sessions'[c].students) |->
                        sessions'[c].students[i].val.username]
              /\ IF HasCurrentQuestion(sessions'[c])
                 THEN /\ sent'[1].data.payload.questionText
                           = getCurrentQuestion(sessions'[c]).questionText
                      /\ sent'[1].data.payload.mcqOptions
                           = getCurrentQuestion(sessions'[c]).mcqOptions
                      /\ sent'[1].data.payload.answers
                           = ObjectValues(getCurrentQuestion(sessions'[c]).answers)
                 ELSE /\ sent'[1].data.payload.questionText = << >>
                      /\ sent'[1].data.payload.answers = << >>
         ELSE /\ sent' = ErrorTo(ws, "Session code not found")
              /\ UNCHANGED << sessions, readyState, uncaught >>]_vars

(***************************************************************************)
(* C9: for a session code that is not in the registry, TEACHER_START_MCQ,  *)
(* TEACHER_NEXT_EXPLANATION, TEACHER_STOP_QUIZ and TEACHER_CLOSE_PAGE send *)
(* no event to any connection, whereas STUDENT_JOIN_SESSION,               *)
(* TEACHER_DOWNLOAD_CSV and TEACHER_REJOIN_SESSION send exactly one ERROR  *)
(* event to the calling connection and to no other; in all seven cases the *)
(* registry and every session are left unchanged.                          *)
(***************************************************************************)
C9_UnknownSessionCode ==
  [][\A ws \in Conns, c \in SessionCodes \ Live :
       /\ ( \/ StartMcqStep(c)
            \/ TEACHER_NEXT_EXPLANATION(ws, c)
            \/ TEACHER_STOP_QUIZ(ws, c)
            \/ TEACHER_CLOSE_PAGE(ws, c) )
            => (sent' = << >> /\ sessions' = sessions)
       /\ (\E username \in Usernames, buf \in RandomPool :
             JoinStep(ws, c, username, buf))
            => (sent' = ErrorTo(ws, "Invalid session code") /\ sessions' = sessions)
       /\ DownloadStep(ws, c)
            => (sent' = ErrorTo(ws, "No such session.") /\ sessions' = sessions)
       /\ TEACHER_REJOIN_SESSION(ws, c)
            => (sent' = ErrorTo(ws, "Session code not found")
                  /\ sessions' = sessions)]_vars

(***************************************************************************)
(* C10: no inbound message can put the server into a failed (crashed)      *)
(* state: a message that is not parseable, that has an unrecognized type,  *)
(* or that is a recognized command whose payload is missing is dropped and *)
(* the server keeps handling later messages.                               *)
(***************************************************************************)
C10_NeverCrashes == ~ crashed

\* the event data was sent to ws while handling the message
Delivered(out, ws, data) == \E i \in 1..Len(out) : out[i] = [to |-> ws, data |-> data]

\* the stop of session c has been announced on every connection of the
\* session that was open, and every participant connection is then closed
StopAnnounced(c) ==
  /\ readyState[sessions[c].teacher] = "OPEN"
       => Delivered(sent', sessions[c].teacher, [type |-> "QUIZ_STOPPED"])
  /\ \A k \in 1..Len(sessions[c].students) :
       /\ readyState[sessions[c].students[k].val.ws] = "OPEN"
            => Delivered(sent', sessions[c].students[k].val.ws,
                         [type |-> "QUIZ_STOPPED"])
       /\ readyState'[sessions[c].students[k].val.ws] # "OPEN"

(***************************************************************************)
(* C11: TEACHER_STOP_QUIZ on an existing session sets its stage to         *)
(* STOPPED, delivers QUIZ_STOPPED to the coordinator (when its connection  *)
(* is open) and to every participant whose connection is open before       *)
(* closing that participant's connection, closes every participant         *)
(* connection, and leaves the session in the registry; TEACHER_CLOSE_PAGE  *)
(* does the same and removes the session from the registry, and a          *)
(* TEACHER_DOWNLOAD_CSV for a session code that is no longer in the        *)
(* registry returns ERROR.                                                 *)
(***************************************************************************)
C11_StopAndClose ==
  [][\A ws \in Conns :
       /\ \A c \in Live :
            /\ TEACHER_STOP_QUIZ(ws, c) =>
                 /\ c \in DOMAIN sessions'
                 /\ sessions'[c].stage = "STOPPED"
                 /\ StopAnnounced(c)
            /\ TEACHER_CLOSE_PAGE(ws, c) =>
                 /\ c \notin DOMAIN sessions'
                 /\ StopAnnounced(c)
       /\ \A c \in { generateSessionCode(b) : b \in RandomPool } \ Live :
            DownloadStep(ws, c) => sent' = ErrorTo(ws, "No such session.")]_vars

\* a stop has just been announced to the coordinator and to a participant
\* on another connection, which is now closed, and the session is kept
C11_Witness ==
  \E c \in Live :
    /\ sessions[c].stage = "STOPPED"
    /\ Delivered(sent, sessions[c].teacher, [type |-> "QUIZ_STOPPED"])
    /\ \E k \in 1..Len(sessions[c].students) :
         /\ sessions[c].students[k].val.ws # sessions[c].teacher
         /\ readyState[sessions[c].students[k].val.ws] = "CLOSED"
         /\ Delivered(sent, sessions[c].students[k].val.ws,
                      [type |-> "QUIZ_STOPPED"])

\* the MCQ_STARTED event of the question that is current after the step
McqStartedOf(c) ==
  [type |-> "MCQ_STARTED",
   payload |-> [questionText |-> getCurrentQuestion(sessions'[c]).questionText,
                options |-> getCurrentQuestion(sessions'[c]).mcqOptions]]

Cycle == totalUptime' # totalUptime

(***************************************************************************)
(* C13: before the uptime ceiling, at each cycle of the keep-alive timer   *)
(* an open connection is terminated if and only if no pong from it has     *)
(* arrived since the previous cycle's probe: a connection probed at the    *)
(* previous cycle is terminated exactly when it has not ponged since, a    *)
(* connection accepted since the previous cycle is not terminated, and     *)
(* every connection the cycle leaves open is probed, the pongs being       *)
(* counted afresh from then on (so a peer that stops responding is         *)
(* terminated no later than the second cycle after its last pong, and one  *)
(* that answers every probe is never terminated by the timer).             *)
(***************************************************************************)
C13_ProbeCycle ==
  [][(Cycle /\ totalUptime' < MAX_DURATION) =>
       /\ \A ws \in Clients(readyState) :
            /\ ws \in probed => (readyState'[ws] # "OPEN" <=> ws \notin ponged)
            /\ ws \notin probed => readyState'[ws] = "OPEN"
            /\ readyState'[ws] = "OPEN" => ws \in probed'
       /\ probed' \subseteq Clients(readyState')
       /\ ponged' = {}]_vars

\* three cycles have run and no peer has closed: the second connection has
\* been terminated by the timer, while the first, accepted before it, has
\* answered its probes, is still open and has been probed again
C13_Witness ==
  /\ totalUptime = 3 * KEEP_ALIVE_INTERVAL
  /\ handled = 2
  /\ readyState[1] = "OPEN"
  /\ 1 \in probed
  /\ readyState[2] = "CLOSED"

(***************************************************************************)
(* C14: the cycle of the keep-alive timer on which the accumulated uptime  *)
(* (cycles times the 30 s interval) first reaches the 60 min ceiling       *)
(* closes every connection open at that moment, sends no probe, and        *)
(* cancels the timer so that no cycle ever runs again; the shutdown        *)
(* happens exactly once, whatever the stage of any session, and touches no *)
(* session.                                                                *)
(***************************************************************************)
C14_Shutdown ==
  /\ [](keepAliveInterval = "CLEARED" <=> totalUptime >= MAX_DURATION)
  /\ [][(Cycle /\ totalUptime' >= MAX_DURATION) =>
          /\ totalUptime' = MAX_DURATION
          /\ \A ws \in Conns : readyState'[ws] # "OPEN"
          /\ probed' = {}
          /\ isAlive' = isAlive
          /\ keepAliveInterval = "ACTIVE"
          /\ keepAliveInterval' = "CLEARED"
          /\ sessions' = sessions]_vars
  /\ [][keepAliveInterval = "CLEARED" =>
          /\ ~ Cycle
          /\ probed' = probed
          /\ keepAliveInterval' = "CLEARED"]_vars

\* the timer has been cancelled at the ceiling while a session was in the
\* explanation stage; no peer has closed, and both connections, one of them
\* never probed, have been closed by the shutdown
C14_Witness ==
  /\ keepAliveInterval = "CLEARED"
  /\ totalUptime = MAX_DURATION
  /\ handled = 4
  /\ \A ws \in Conns : readyState[ws] = "CLOSED"
  /\ \E ws \in Conns : isAlive[ws]
  /\ \E c \in Live : sessions[c].stage = "EXPLANATION"

\* the MCQ Answer field as stated: empty for an unanswered record, the
\* submitted option value otherwise
StatedMcqAnswerField(mcqAnswer) ==
  IF mcqAnswer = null THEN << >> ELSE NumberToString(mcqAnswer)

\* the rows as stated: the header, then one row per question and answer
\* record, questions in insertion order
StatedRows(session) ==
  << CsvHeader >>
    \o Flatten([i \in 1..Len(session.questions) |->
                  [j \in 1..Len(session.questions[i].answers) |->
                     << NumberToString(session.questions[i].questionNumber),
                        session.questions[i].questionText,
                        session.questions[i].answers[j].val.username,
                        StatedMcqAnswerField(session.questions[i].answers[j].val.mcqAnswer),
                        session.questions[i].answers[j].val.explanation >>]])

StatedCsv(session) ==
  Join([i \in 1..Len(StatedRows(session)) |->
          Join([j \in 1..5 |-> CsvField(StatedRows(session)[i][j])], << "," >>)],
       << "\n" >>)

(***************************************************************************)
(* C15: generateCSV(session) produces the header row followed by exactly   *)
(* one data row per (question, answer record) pair, questions in insertion *)
(* order, each row carrying that question's number and text and that       *)
(* record's username, mcqAnswer and explanation; the MCQ Answer field is   *)
(* the empty string exactly when the record's mcqAnswer is null, and       *)
(* otherwise the submitted option value, option index 0 included.          *)
(***************************************************************************)
C15_GenerateCsv ==
  \A c \in Live : generateCSV(sessions[c]) = StatedCsv(sessions[c])

(***************************************************************************)
(* C16: once a session's stage is STOPPED it stays STOPPED for as long as  *)
(* the session remains in the registry: no later command (in particular    *)
(* TEACHER_START_MCQ or TEACHER_NEXT_EXPLANATION with that session code)   *)
(* moves the session to any other stage.  (A create that replaces the      *)
(* registry entry starts another session and is left aside.)               *)
(***************************************************************************)
C16_StoppedIsTerminal ==
  [][\A c \in Live \cap DOMAIN sessions' :
       (sessions[c].stage = "STOPPED" /\ ~ CreateStep(c))
         => sessions'[c].stage = "STOPPED"]_vars

\* the position of a question stage along MCQ -> EXPLANATION -> DONE
StageRank(stage) ==
  CASE stage = "MCQ" -> 1 [] stage = "EXPLANATION" -> 2 [] stage = "DONE" -> 3

(***************************************************************************)
(* C17: every question's stage only moves forward along                    *)
(* MCQ -> EXPLANATION -> DONE, never backward and never from DONE; a       *)
(* question's stage becomes DONE only in the step that handles a           *)
(* TEACHER_START_MCQ creating the next question, and only if that question *)
(* was the current question in EXPLANATION stage; TEACHER_NEXT_EXPLANATION *)
(* changes, among the questions, only the current question's stage and     *)
(* only from MCQ to EXPLANATION.  (A session's questions are followed      *)
(* while its record stays in the registry and is not replaced by a newly   *)
(* created session.)                                                       *)
(***************************************************************************)
C17_QuestionStageForward ==
  [][\A c \in Live \cap DOMAIN sessions' :
       ~ CreateStep(c) =>
         /\ Len(sessions'[c].questions) >= Len(sessions[c].questions)
         /\ \A i \in 1..Len(sessions[c].questions) :
              /\ StageRank(sessions'[c].questions[i].stage)
                   >= StageRank(sessions[c].questions[i].stage)
              /\ (sessions'[c].questions[i].stage = "DONE"
                    /\ sessions[c].questions[i].stage # "DONE") =>
                   /\ StartMcqStep(c)
                   /\ Len(sessions'[c].questions) = Len(sessions[c].questions) + 1
                   /\ i = sessions[c].currentQuestionIndex + 1
                   /\ sessions[c].questions[i].stage = "EXPLANATION"
         /\ (\E ws \in Conns : TEACHER_NEXT_EXPLANATION(ws, c)) =>
              /\ Len(sessions'[c].questions) = Len(sessions[c].questions)
              /\ \A i \in 1..Len(sessions[c].questions) :
                   sessions'[c].questions[i] =
                     IF i = sessions[c].currentQuestionIndex + 1
                          /\ sessions[c].questions[i].stage = "MCQ"
                     THEN [sessions[c].questions[i] EXCEPT !.stage = "EXPLANATION"]
                     ELSE sessions[c].questions[i]]_vars

\* the first question of a session is DONE and its second question has
\* been moved on to EXPLANATION
C17_Witness ==
  \E c \in Live :
    /\ Len(sessions[c].questions) = 2
    /\ sessions[c].questions[1].stage = "DONE"
    /\ sessions[c].questions[2].stage = "EXPLANATION"

(***************************************************************************)
(* C18: immediately after TEACHER_START_MCQ is handled for an existing     *)
(* session, the new question's answers map has exactly one record for each *)
(* participant currently in the session's participants map and no others,  *)
(* each with that participant's username, mcqAnswer = null and             *)
(* explanation = "", and the answers maps of all earlier questions are     *)
(* unchanged.                                                              *)
(***************************************************************************)
C18_StartMcqAnswerSlots ==
  [][\A c \in Live :
       StartMcqStep(c) =>
         /\ sessions'[c].students = sessions[c].students
         /\ Len(sessions'[c].questions) = Len(sessions[c].questions) + 1
         /\ Len(sessions'[c].questions[Len(sessions'[c].questions)].answers)
              = Len(sessions[c].students)
         /\ \A k \in 1..Len(sessions[c].students) :
              /\ Cardinality(RecordsOf(
                   sessions'[c].questions[Len(sessions'[c].questions)].answers,
                   sessions[c].students[k].key)) = 1
              /\ GetOwn(sessions'[c].questions[Len(sessions'[c].questions)].answers,
                        sessions[c].students[k].key)
                   = [username |-> sessions[c].students[k].val.username,
                      mcqAnswer |-> null, explanation |-> << >>]
         /\ \A i \in 1..Len(sessions[c].questions) :
              sessions'[c].questions[i].answers = sessions[c].questions[i].answers]_vars

\* a second question has just been started in a session whose participant
\* had answered the first: the new question holds the participant's empty
\* slot and the first question still holds the answer
C18_Witness ==
  /\ SentType("MCQ_STARTED")
  /\ \E c \in Live :
       /\ Len(sessions[c].questions) = 2
       /\ Len(sessions[c].students) >= 1
       /\ \E j \in 1..Len(sessions[c].questions[1].answers) :
            sessions[c].questions[1].answers[j].val.mcqAnswer # null
       /\ \A j \in 1..Len(sessions[c].questions[2].answers) :
            sessions[c].questions[2].answers[j].val.mcqAnswer = null
       /\ Len(sessions[c].questions[2].answers) = Len(sessions[c].students)

\* a question without its answers map
WithoutAnswers(q) == [q EXCEPT !.answers = << >>]

\* the entries of an answers map that belong to other ids than studentId
OtherEntries(answers, studentId) ==
  { answers[j] : j \in { m \in 1..Len(answers) : answers[m].key # studentId } }

\* across the step, session c changes at most the record of studentId on
\* its current question
SubmitFrame(c, studentId) ==
  /\ DOMAIN sessions' = DOMAIN sessions
  /\ sessions'[c].stage = sessions[c].stage
  /\ sessions'[c].currentQuestionIndex = sessions[c].currentQuestionIndex
  /\ sessions'[c].students = sessions[c].students
  /\ Len(sessions'[c].questions) = Len(sessions[c].questions)
  /\ \A i \in 1..Len(sessions[c].questions) :
       /\ WithoutAnswers(sessions'[c].questions[i])
            = WithoutAnswers(sessions[c].questions[i])
       /\ IF i = sessions[c].currentQuestionIndex + 1
          THEN OtherEntries(sessions'[c].questions[i].answers, studentId)
                 = OtherEntries(sessions[c].questions[i].answers, studentId)
          ELSE sessions'[c].questions[i].answers = sessions[c].questions[i].answers

\* studentId is no participant of the session and has no record on its
\* current question
Stranger(session, studentId) ==
  /\ ~ HasOwn(session.students, studentId)
  /\ HasCurrentQuestion(session)
       => ~ HasOwn(getCurrentQuestion(session).answers, studentId)

(***************************************************************************)
(* C19: STUDENT_SUBMIT_MCQ and STUDENT_EXPLANATION_UPDATE change at most   *)
(* the submitting participant id's answer record on the session's current  *)
(* question: the session stage, currentQuestionIndex, every question's     *)
(* stage, the participants map, every other participant's records and all  *)
(* records on non-current questions are unchanged; submit-mcq leaves that  *)
(* record's explanation unchanged, and submit-explanation leaves its       *)
(* mcqAnswer unchanged and is accepted whatever the current question's     *)
(* stage; a submission whose participant id is not a participant of the    *)
(* session and has no record changes nothing.                              *)
(***************************************************************************)
C19_SubmitFrame ==
  [][\A c \in Live, studentId \in StudentIds :
       /\ \A answer \in Answers :
            SubmitMcqStep(c, studentId, answer) =>
              /\ SubmitFrame(c, studentId)
              /\ Stranger(sessions[c], studentId) => sessions' = sessions
              /\ (HasCurrentQuestion(sessions[c])
                    /\ HasOwn(getCurrentQuestion(sessions[c]).answers, studentId)) =>
                   GetOwn(getCurrentQuestion(sessions'[c]).answers, studentId).explanation
                     = GetOwn(getCurrentQuestion(sessions[c]).answers, studentId).explanation
       /\ \A explanation \in Explanations :
            (\E ws \in Conns : STUDENT_EXPLANATION_UPDATE(ws, c, studentId, explanation)) =>
              /\ SubmitFrame(c, studentId)
              /\ Stranger(sessions[c], studentId) => sessions' = sessions
              /\ (HasCurrentQuestion(sessions[c])
                    /\ HasOwn(getCurrentQuestion(sessions[c]).answers, studentId)) =>
                   GetOwn(getCurrentQuestion(sessions'[c]).answers, studentId).mcqAnswer
                     = GetOwn(getCurrentQuestion(sessions[c]).answers, studentId).mcqAnswer
              /\ (HasCurrentQuestion(sessions[c])
                    /\ ~ Stranger(sessions[c], studentId)) =>
                   GetOwn(getCurrentQuestion(sessions'[c]).answers, studentId).explanation
                     = explanation]_vars

\* the coordinator has just been shown, for a question still in MCQ stage,
\* a record that holds an explanation next to the answer submitted before
C19_Witness ==
  \E i \in 1..Len(sent) :
    /\ sent[i].data.type = "TEACHER_VIEW_UPDATE"
    /\ sent[i].data.payload.stage = "MCQ"
    /\ sent[i].data.payload.sessionCode \in Live
    /\ getCurrentQuestion(sessions[sent[i].data.payload.sessionCode]).stage = "MCQ"
    /\ \E k \in 1..Len(sent[i].data.payload.answers) :
         /\ sent[i].data.payload.answers[k].mcqAnswer # null
         /\ sent[i].data.payload.answers[k].explanation \in Explanations

(***************************************************************************)
(* C20: session stage and question stages stay coupled in every reachable  *)
(* state: if the session stage is WAITING then questions is empty and      *)
(* currentQuestionIndex is -1; if the session stage is MCQ then a current  *)
(* question exists and its stage is MCQ; if the session stage is           *)
(* EXPLANATION then a current question exists and its stage is             *)
(* EXPLANATION; the current question's stage is never DONE, and every      *)
(* question whose stage is DONE has an index below currentQuestionIndex.   *)
(***************************************************************************)
C20_StageCoupling ==
  \A c \in Live :
    /\ sessions[c].stage = "WAITING" =>
         /\ sessions[c].questions = << >>
         /\ sessions[c].currentQuestionIndex = -1
    /\ sessions[c].stage = "MCQ" =>
         /\ HasCurrentQuestion(sessions[c])
         /\ getCurrentQuestion(sessions[c]).stage = "MCQ"
    /\ sessions[c].stage = "EXPLANATION" =>
         /\ HasCurrentQuestion(sessions[c])
         /\ getCurrentQuestion(sessions[c]).stage = "EXPLANATION"
    /\ HasCurrentQuestion(sessions[c]) => getCurrentQuestion(sessions[c]).stage # "DONE"
    /\ \A i \in 1..Len(sessions[c].questions) :
         sessions[c].questions[i].stage = "DONE"
           => i - 1 < sessions[c].currentQuestionIndex

====
